---- MODULE Spec2Model ----
(***************************************************************************)
(* OpenALStream (Source/Core/AudioCommon/OpenALStream.cpp): the control    *)
(* thread (Start, Update, Clear, Stop), the SoundLoop thread, the          *)
(* time-stretch engine soundTouch and the OpenAL source the loop streams   *)
(* to.                                                                     *)
(*                                                                         *)
(* Sample data is held by its frame count and by its batch: the number of  *)
(* slots queued before it was drained, which differs for any two batches   *)
(* that reach alBufferData.  Speeds and tempos are in hundredths (100 is   *)
(* 1.0).  An unsigned int is held as its 32-bit pattern read as two's      *)
(* complement: a negative value v stands for 2^32 + v.                     *)
(***************************************************************************)
EXTENDS Integers, Sequences, FiniteSets, TLC

\* ---------------------------------------------------------------- bounds
\* iLatency ranges over 0..MaxLatency, so numBuffers over 2..MaxLatency+2
MaxLatency == 0
\* the loop queues at most MaxSubmits slots
MaxSubmits == 3
\* Clear() is called at most MaxClears times
MaxClears == 1

\* ------------------------------------------------------ program constants
OAL_MAX_SAMPLES == 512
\* DPL2 accepts 240 samples minimum (FWRDURATION)
DPL2_MIN_SAMPLES == 240
\* lower limit of 10% speed, in hundredths
TEMPO_LOW == 10
\* above 10x the time-stretch history is cleared, in hundredths
TEMPO_HIGH == 1000
\* soundTouch.setTempo(1.0) of the set-up, in hundredths
TEMPO_UNITY == 100

\* frame counts Mix() may return (at most the count asked for)
MixCounts == {0, 120, 240}
\* values GetCurrentSpeed() may return, in hundredths
Speeds == {0, 10, 50, 100, 1000, 2000}

VARIABLES
  appPc,              \* position of the controlling thread in Start()/Stop()
  loopPc,             \* position of the SoundLoop thread
  m_run_thread,       \* the run flag
  soundSyncEvent,     \* the wake signal: a single binary event
  m_muted,
  \* SoundLoop's members and locals
  numBuffers, uiSource, nextBuffer, numBuffersQueued, numBuffersProcessed,
  iState, float32_capable, surround_capable,
  numSamples, rate, nSamples, sampleBuffer,
  \* soundTouch: the tempo in force and the frames it holds
  stTempo, stFrames,
  \* the OpenAL device: resources, the source's queue and play state
  alDevice, alContext, alBuffers, srcQueue, srcPlayed, srcState,
  \* history
  submits,            \* number of slots the loop has queued so far
  clears,             \* number of Clear() calls so far
  calls,              \* soundTouch and device calls the loop made this cycle
  atTest,             \* ring cursor and capability flags when the cycle began
  skipped,            \* the loop's latest cycle ended at line 289
  held,               \* frames soundTouch held at the cycle's receiveSamples
  lastFill,           \* the loop's latest alBufferData call
  rejected,           \* batch of the latest rejected stereo float32 fill
  released,           \* how often Stop() released each kind of resource
  bReturn,            \* what Start() returns
  outcome             \* how far Start() got

vars == << appPc, loopPc, m_run_thread, soundSyncEvent, m_muted,
           numBuffers, uiSource, nextBuffer, numBuffersQueued, numBuffersProcessed,
           iState, float32_capable, surround_capable, numSamples, rate, nSamples,
           sampleBuffer,
           stTempo, stFrames,
           alDevice, alContext, alBuffers, srcQueue, srcPlayed, srcState,
           submits, clears, calls, atTest, skipped, held, lastFill, rejected,
           released, bReturn, outcome >>

ctlVars == << appPc, m_run_thread, soundSyncEvent, m_muted >>
loopVars == << numBuffers, uiSource, nextBuffer, numBuffersQueued, numBuffersProcessed,
               iState, float32_capable, surround_capable, numSamples, rate, nSamples,
               sampleBuffer >>
stVars == << stTempo, stFrames >>
alVars == << alDevice, alContext, alBuffers, srcQueue, srcPlayed, srcState >>
histVars == << submits, clears, calls, atTest, skipped, held, lastFill, rejected,
              released, bReturn, outcome >>

NoFill == [slot |-> 0, fmt |-> "none", batch |-> 0, res |-> "none"]
NoRelease == [buffers |-> 0, source |-> 0, context |-> 0, device |-> 0]

Min(a, b) == IF a < b THEN a ELSE b

Init ==
  /\ appPc = "idle"
  /\ loopPc = "none"
  /\ m_run_thread = FALSE
  /\ soundSyncEvent = FALSE
  /\ m_muted = FALSE
  /\ numBuffers = 0
  /\ uiSource = 0
  /\ nextBuffer = 0
  /\ numBuffersQueued = 0
  /\ numBuffersProcessed = 0
  /\ iState = "initial"
  /\ float32_capable = FALSE
  /\ surround_capable = FALSE
  /\ numSamples = 0
  /\ rate = 0
  /\ sampleBuffer = 0
  /\ nSamples = 0
  /\ stTempo = TEMPO_UNITY
  /\ stFrames = 0
  /\ alDevice = "closed"
  /\ alContext = "none"
  /\ alBuffers = 0
  /\ srcQueue = << >>
  /\ srcPlayed = 0
  /\ srcState = "initial"
  /\ submits = 0
  /\ clears = 0
  /\ calls = << >>
  /\ atTest = [nextBuffer |-> 0, queued |-> 0, float32 |-> FALSE, surround |-> FALSE]
  /\ skipped = FALSE
  /\ held = 0
  /\ lastFill = NoFill
  /\ rejected = -1
  /\ released = NoRelease
  /\ bReturn = FALSE
  /\ outcome = "none"

\* ----------------------------------------------------- the wake signal
\* Common::Event, a single binary event: Set() sets it, however often it
\* was set before; Wait() returns once it is set and resets it
EventSet(event) == TRUE
EventWaitReturns(event) == event
EventAfterWait(event) == FALSE

\* --------------------------------------------------- the OpenAL source
\* alGetSourcei(AL_BUFFERS_PROCESSED): every queued buffer of a stopped
\* source counts as processed, none of a source that never played
Processed ==
  CASE srcState = "stopped" -> Len(srcQueue)
    [] srcState = "initial" -> 0
    [] OTHER -> srcPlayed

\* alSourceStop(uiSource): an invalid name changes nothing
SourceStopped(state) ==
  IF uiSource = 0 \/ state = "initial" THEN state ELSE "stopped"

\* alSourcePlay(uiSource): playback (re)starts at the head of the queue; a
\* source with nothing queued stops at once
SourcePlayed(state, queue) ==
  IF uiSource = 0 THEN state
  ELSE IF queue = << >> THEN "stopped" ELSE "playing"

\* the device finishes playing the buffer at its play position; when it was
\* the last one queued the source stops (underrun)
DeviceProgress ==
  /\ srcState = "playing"
  /\ srcPlayed < Len(srcQueue)
  /\ IF srcPlayed + 1 = Len(srcQueue)
       THEN srcState' = "stopped" /\ srcPlayed' = 0
       ELSE srcState' = "playing" /\ srcPlayed' = srcPlayed + 1
  /\ UNCHANGED << alDevice, alContext, alBuffers, srcQueue >>
  /\ UNCHANGED << ctlVars, loopPc, loopVars, stVars, histVars >>

\* ------------------------------------------------ the controlling thread
\* how far Start() gets: no device found (l.33), the device not opened
\* (l.40), the context not created (l.43), or all three done
StartOutcomes == {"no_device", "no_open", "no_context", "ok"}

\* Start() leaving the device open when the context cannot be created
DeviceAfterStart_Leak(o) == IF o \in {"no_context", "ok"} THEN "open" ELSE "closed"

\* lines 39-56: the device is opened when one was found; alcCloseDevice
\* closes it again when the context cannot be created
DeviceAfterStart(o) ==
  CASE o = "ok" -> "open"
    [] o = "no_context" -> "closed"
    [] OTHER -> "closed"

\* lines 42-50: the context created is made current
ContextAfterStart(o) == IF o = "ok" THEN "current" ELSE "none"

\* lines 30, 52: bReturn is set where the thread is spawned
StartReturns(o) == o = "ok"

\* Start(), lines 29-68: set the run flag, open the device, create the
\* context and spawn the loop thread, or fail at one of the three steps
StartOpen ==
  /\ appPc = "idle"
  /\ m_run_thread' = TRUE
  /\ \E o \in StartOutcomes :
       /\ outcome' = o
       /\ alDevice' = DeviceAfterStart(o)
       /\ alContext' = ContextAfterStart(o)
       /\ bReturn' = StartReturns(o)
       /\ loopPc' = IF StartReturns(o) THEN "setup" ELSE loopPc
       /\ appPc' = IF StartReturns(o) THEN "start_ok" ELSE "start_fail"
  /\ UNCHANGED << soundSyncEvent, m_muted, loopVars, stVars >>
  /\ UNCHANGED << alBuffers, srcQueue, srcPlayed, srcState >>
  /\ UNCHANGED << submits, clears, calls, atTest, skipped, held, lastFill, rejected,
                  released >>

\* Start(), lines 70-74: DPL2Reset(), soundTouch.clear(), return bReturn
StartFinish ==
  /\ appPc \in {"start_ok", "start_fail"}
  /\ stFrames' = 0
  /\ appPc' = IF bReturn THEN "running" ELSE "failed"
  /\ UNCHANGED << loopPc, m_run_thread, soundSyncEvent, m_muted, stTempo >>
  /\ UNCHANGED << loopVars, alVars, histVars >>

\* Update(): may come from another thread until Stop() has joined the loop
Update ==
  /\ appPc \in {"running", "stop_set", "stop_clear", "stop_join"}
  /\ soundSyncEvent' = EventSet(soundSyncEvent)
  /\ UNCHANGED << appPc, loopPc, m_run_thread, m_muted >>
  /\ UNCHANGED << loopVars, stVars, alVars, histVars >>

\* Clear(mute)
Clear ==
  /\ appPc = "running"
  /\ clears < MaxClears
  /\ clears' = clears + 1
  /\ \E mute \in BOOLEAN :
       /\ m_muted' = mute
       /\ IF mute
            THEN /\ stFrames' = 0
                 /\ srcState' = SourceStopped(srcState)
                 /\ srcPlayed' = IF srcState' = "playing" THEN srcPlayed ELSE 0
            ELSE /\ stFrames' = stFrames
                 /\ srcState' = SourcePlayed(srcState, srcQueue)
                 /\ srcPlayed' = IF uiSource = 0 THEN srcPlayed ELSE 0
  /\ UNCHANGED << appPc, loopPc, m_run_thread, soundSyncEvent, stTempo >>
  /\ UNCHANGED << loopVars, alDevice, alContext, alBuffers, srcQueue >>
  /\ UNCHANGED << submits, calls, atTest, skipped, held, lastFill, rejected, released >>
  /\ UNCHANGED << bReturn, outcome >>

\* Stop(), line 79
StopFlag ==
  /\ appPc = "running"
  /\ m_run_thread' = FALSE
  /\ appPc' = "stop_set"
  /\ UNCHANGED << loopPc, soundSyncEvent, m_muted, loopVars, stVars, alVars, histVars >>

\* StopSet without the wake
StopSet_NoWake ==
  /\ appPc = "stop_set"
  /\ appPc' = "stop_clear"
  /\ UNCHANGED << loopPc, m_run_thread, soundSyncEvent, m_muted >>
  /\ UNCHANGED << loopVars, stVars, alVars, histVars >>

\* Stop(), line 81: kick the thread if it's waiting
StopSet ==
  /\ appPc = "stop_set"
  /\ soundSyncEvent' = EventSet(soundSyncEvent)
  /\ appPc' = "stop_clear"
  /\ UNCHANGED << loopPc, m_run_thread, m_muted, loopVars, stVars, alVars, histVars >>

\* Stop(), line 83: soundTouch.clear()
StopClear ==
  /\ appPc = "stop_clear"
  /\ stFrames' = 0
  /\ appPc' = "stop_join"
  /\ UNCHANGED << loopPc, m_run_thread, soundSyncEvent, m_muted, stTempo >>
  /\ UNCHANGED << loopVars, alVars, histVars >>

\* StopJoin that does not wait for the loop thread
StopJoin_NoWait ==
  /\ appPc = "stop_join"
  /\ appPc' = "stop_source"
  /\ UNCHANGED << loopPc, m_run_thread, soundSyncEvent, m_muted >>
  /\ UNCHANGED << loopVars, stVars, alVars, histVars >>

\* Stop(), line 85: thread.join() returns once SoundLoop has returned
StopJoin ==
  /\ appPc = "stop_join"
  /\ loopPc = "done"
  /\ appPc' = "stop_source"
  /\ UNCHANGED << loopPc, m_run_thread, soundSyncEvent, m_muted >>
  /\ UNCHANGED << loopVars, stVars, alVars, histVars >>

\* StopSource that deletes the source and leaves the buffers
StopSource_KeepsBuffers ==
  /\ appPc = "stop_source"
  /\ srcState' = SourceStopped(srcState)
  /\ srcPlayed' = 0
  /\ srcQueue' = << >>
  /\ uiSource' = 0
  /\ released' = [released EXCEPT !.source = @ + 1]
  /\ appPc' = "stop_context"
  /\ UNCHANGED << loopPc, m_run_thread, soundSyncEvent, m_muted, stVars >>
  /\ UNCHANGED << numBuffers, nextBuffer, numBuffersQueued, numBuffersProcessed,
                  iState, float32_capable, surround_capable, numSamples, rate,
                  nSamples, sampleBuffer >>
  /\ UNCHANGED << alDevice, alContext, alBuffers, submits, clears, calls, atTest,
                  skipped, held, lastFill, rejected >>
  /\ UNCHANGED << bReturn, outcome >>

\* Stop(), lines 87-93: stop the source, detach its buffers, delete the
\* source and the numBuffers buffers
StopSource ==
  /\ appPc = "stop_source"
  /\ srcState' = SourceStopped(srcState)
  /\ srcPlayed' = 0
  /\ srcQueue' = << >>
  /\ uiSource' = 0
  /\ alBuffers' = alBuffers - numBuffers
  /\ released' = [released EXCEPT !.source = @ + 1, !.buffers = @ + 1]
  /\ appPc' = "stop_context"
  /\ UNCHANGED << loopPc, m_run_thread, soundSyncEvent, m_muted, stVars >>
  /\ UNCHANGED << numBuffers, nextBuffer, numBuffersQueued, numBuffersProcessed,
                  iState, float32_capable, surround_capable, numSamples, rate,
                  nSamples, sampleBuffer >>
  /\ UNCHANGED << alDevice, alContext, submits, clears, calls, atTest, skipped,
                  held, lastFill, rejected >>
  /\ UNCHANGED << bReturn, outcome >>

\* Stop(), lines 95-100: destroy the context, close the device
StopContext ==
  /\ appPc = "stop_context"
  /\ alContext' = "destroyed"
  /\ alDevice' = "closed"
  /\ released' = [released EXCEPT !.context = @ + 1, !.device = @ + 1]
  /\ appPc' = "stopped"
  /\ UNCHANGED << loopPc, m_run_thread, soundSyncEvent, m_muted, loopVars, stVars >>
  /\ UNCHANGED << alBuffers, srcQueue, srcPlayed, srcState >>
  /\ UNCHANGED << submits, clears, calls, atTest, skipped, held, lastFill, rejected >>
  /\ UNCHANGED << bReturn, outcome >>

\* ------------------------------------------------------ the loop thread
\* locals of the loop body
bodyLocals == << numBuffersProcessed, numSamples, rate, nSamples >>
caps == << float32_capable, surround_capable >>

\* the cycle is over: the locals of the loop body go out of scope
EndCycle ==
  /\ loopPc' = "test"
  /\ numBuffersProcessed' = 0
  /\ numSamples' = 0
  /\ rate' = 0
  /\ nSamples' = 0

\* SoundLoop(), lines 169-222: capability flags, numBuffers, the buffers
\* and the source, soundTouch's settings
LoopSetup ==
  /\ loopPc = "setup"
  /\ \E dpl2 \in BOOLEAN, xfi \in BOOLEAN, latency \in 0..MaxLatency :
       /\ surround_capable' = dpl2
       /\ float32_capable' = ~xfi
       /\ numBuffers' = latency + 2
       /\ alBuffers' = alBuffers + latency + 2
  /\ uiSource' = 1
  /\ srcQueue' = << >>
  /\ srcPlayed' = 0
  /\ srcState' = "initial"
  /\ nextBuffer' = 0
  /\ numBuffersQueued' = 0
  /\ iState' = "initial"
  /\ stTempo' = TEMPO_UNITY
  /\ loopPc' = "test"
  /\ UNCHANGED << ctlVars, bodyLocals, sampleBuffer, stFrames >>
  /\ UNCHANGED << alDevice, alContext, histVars >>

\* line 224: while (m_run_thread.IsSet())
LoopTest ==
  /\ loopPc = "test"
  /\ IF m_run_thread
       THEN /\ submits < MaxSubmits
            /\ loopPc' = "query"
       ELSE loopPc' = "done"
  /\ calls' = << >>
  /\ atTest' = [nextBuffer |-> nextBuffer, queued |-> numBuffersQueued,
                float32 |-> float32_capable, surround |-> surround_capable]
  /\ UNCHANGED << ctlVars, loopVars, stVars, alVars >>
  /\ UNCHANGED << submits, clears, skipped, held, lastFill, rejected, released >>
  /\ UNCHANGED << bReturn, outcome >>

\* LoopQuery waiting only once the count has passed numBuffers
LoopQuery_WaitsLate ==
  /\ loopPc = "query"
  /\ numBuffersProcessed' = Processed
  /\ loopPc' = IF numBuffers < numBuffersQueued /\ Processed = 0
                 THEN "wait" ELSE "reclaim"
  /\ UNCHANGED << ctlVars, numBuffers, uiSource, nextBuffer, numBuffersQueued, iState,
                  caps, numSamples, rate, nSamples, sampleBuffer >>
  /\ UNCHANGED << stVars, alVars, histVars >>

\* lines 227-233: query the processed count; with every slot queued and
\* none processed, go and wait
LoopQuery ==
  /\ loopPc = "query"
  /\ numBuffersProcessed' = Processed
  /\ loopPc' = IF numBuffers = numBuffersQueued /\ Processed = 0
                 THEN "wait" ELSE "reclaim"
  /\ UNCHANGED << ctlVars, numBuffers, uiSource, nextBuffer, numBuffersQueued, iState,
                  caps, numSamples, rate, nSamples, sampleBuffer >>
  /\ UNCHANGED << stVars, alVars, histVars >>

\* LoopWait returning after a while without the signal
LoopWait_TimesOut ==
  /\ loopPc = "wait"
  /\ soundSyncEvent' = EventAfterWait(soundSyncEvent)
  /\ EndCycle
  /\ UNCHANGED << appPc, m_run_thread, m_muted >>
  /\ UNCHANGED << numBuffers, uiSource, nextBuffer, numBuffersQueued, iState, caps,
                  sampleBuffer >>
  /\ UNCHANGED << stVars, alVars, histVars >>

\* lines 231-232: soundSyncEvent.Wait() returns once the event is set and
\* resets it; continue
LoopWait ==
  /\ loopPc = "wait"
  /\ EventWaitReturns(soundSyncEvent)
  /\ soundSyncEvent' = EventAfterWait(soundSyncEvent)
  /\ EndCycle
  /\ UNCHANGED << appPc, m_run_thread, m_muted >>
  /\ UNCHANGED << numBuffers, uiSource, nextBuffer, numBuffersQueued, iState, caps,
                  sampleBuffer >>
  /\ UNCHANGED << stVars, alVars, histVars >>

\* alSourceUnqueueBuffers(uiSource, n, ...): the n buffers at the head
\* leave the queue; asking for more than are processed is an error that
\* unqueues nothing
Unqueued(queue, n) ==
  IF n <= Processed THEN SubSeq(queue, n + 1, Len(queue)) ELSE queue

\* LoopReclaim unqueueing one buffer however many were processed
LoopReclaim_One ==
  /\ loopPc = "reclaim"
  /\ IF numBuffersProcessed # 0
       THEN /\ srcQueue' = Unqueued(srcQueue, 1)
            /\ srcPlayed' = IF srcState = "playing" THEN srcPlayed - 1 ELSE srcPlayed
            /\ numBuffersQueued' = numBuffersQueued - 1
            /\ calls' = Append(calls, "unqueue")
       ELSE UNCHANGED << srcQueue, srcPlayed, numBuffersQueued, calls >>
  /\ loopPc' = "mix"
  /\ UNCHANGED << ctlVars, numBuffers, uiSource, nextBuffer, iState, caps, bodyLocals,
                  sampleBuffer >>
  /\ UNCHANGED << stVars, alDevice, alContext, alBuffers, srcState >>
  /\ UNCHANGED << submits, clears, atTest, skipped, held, lastFill, rejected, released >>
  /\ UNCHANGED << bReturn, outcome >>

\* lines 236-243: remove the processed buffers from the queue
LoopReclaim ==
  /\ loopPc = "reclaim"
  /\ IF numBuffersProcessed # 0
       THEN /\ srcQueue' = Unqueued(srcQueue, numBuffersProcessed)
            /\ srcPlayed' = IF srcState = "playing" /\ numBuffersProcessed <= Processed
                              THEN srcPlayed - numBuffersProcessed ELSE srcPlayed
            /\ numBuffersQueued' = numBuffersQueued - numBuffersProcessed
            /\ calls' = Append(calls, "unqueue")
       ELSE UNCHANGED << srcQueue, srcPlayed, numBuffersQueued, calls >>
  /\ loopPc' = "mix"
  /\ UNCHANGED << ctlVars, numBuffers, uiSource, nextBuffer, iState, caps, bodyLocals,
                  sampleBuffer >>
  /\ UNCHANGED << stVars, alDevice, alContext, alBuffers, srcState >>
  /\ UNCHANGED << submits, clears, atTest, skipped, held, lastFill, rejected, released >>
  /\ UNCHANGED << bReturn, outcome >>

\* lines 254-266: pull at most OAL_MAX_SAMPLES frames from the mixer and
\* put them into soundTouch
LoopMix ==
  /\ loopPc = "mix"
  /\ \E n \in {m \in MixCounts : m <= OAL_MAX_SAMPLES} :
       /\ numSamples' = n
       /\ stFrames' = stFrames + n
  /\ calls' = Append(calls, "putSamples")
  /\ skipped' = FALSE
  /\ loopPc' = "stretch"
  /\ UNCHANGED << ctlVars, numBuffers, uiSource, nextBuffer, numBuffersQueued, iState,
                  caps, numBuffersProcessed, rate, nSamples, sampleBuffer >>
  /\ UNCHANGED << stTempo, alVars >>
  /\ UNCHANGED << submits, clears, atTest, held, lastFill, rejected, released >>
  /\ UNCHANGED << bReturn, outcome >>

\* soundTouch.receiveSamples(out, maxSamples): the frames held come out
\* stretched by the tempo in force, at most maxSamples of them
Received(frames, tempo, maxSamples) == Min((frames * 100) \div tempo, maxSamples)

\* the input frames left in soundTouch after receiveSamples
Remaining(frames, tempo, maxSamples) ==
  IF (frames * 100) \div tempo <= maxSamples THEN 0
  ELSE frames - (maxSamples * tempo) \div 100

\* lines 255-256
MinSamples == IF surround_capable THEN DPL2_MIN_SAMPLES ELSE 0

\* the tempo set from 10% on
TempoSet_Inclusive(r) == r >= TEMPO_LOW

\* lines 277-284: above 10% the tempo is set
TempoSet(r) == r > TEMPO_LOW

\* lines 280-283: above 10x soundTouch is cleared as well
TempoClears(r) == r > TEMPO_LOW /\ r > TEMPO_HIGH

\* lines 288-289: with too few samples, continue
TooFew(n) == n <= MinSamples

\* lines 268-289: read the speed (once more when it is <= 0), apply the
\* tempo policy, drain soundTouch; with too few samples, continue
LoopStretch ==
  /\ loopPc = "stretch"
  /\ \E first \in Speeds, second \in Speeds :
       /\ first > 0 => second = first
       /\ rate' = IF first <= 0 THEN second ELSE first
  /\ stTempo' = IF TempoSet(rate') THEN rate' ELSE stTempo
  /\ held' = IF TempoClears(rate') THEN 0 ELSE stFrames
  /\ LET maxSamples == OAL_MAX_SAMPLES * numBuffers
     IN  /\ nSamples' = Received(held', stTempo', maxSamples)
         /\ stFrames' = Remaining(held', stTempo', maxSamples)
  /\ sampleBuffer' = submits
  /\ calls' = calls \o (IF TempoSet(rate') THEN << "setTempo" >> ELSE << >>)
                    \o (IF TempoClears(rate') THEN << "clear" >> ELSE << >>)
                    \o << "receiveSamples" >>
  /\ loopPc' = IF TooFew(nSamples') THEN "skip" ELSE "submit"
  /\ UNCHANGED << ctlVars, numBuffers, uiSource, nextBuffer, numBuffersQueued, iState,
                  caps, numBuffersProcessed, numSamples >>
  /\ UNCHANGED << alVars, submits, clears, atTest, skipped, lastFill, rejected, released >>
  /\ UNCHANGED << bReturn, outcome >>

\* a cycle with too few samples going to wait for the wake signal
LoopSkip_Waits ==
  /\ loopPc = "skip"
  /\ loopPc' = "wait"
  /\ skipped' = TRUE
  /\ held' = 0
  /\ UNCHANGED << ctlVars, loopVars, stVars, alVars >>
  /\ UNCHANGED << submits, clears, calls, atTest, lastFill, rejected, released >>
  /\ UNCHANGED << bReturn, outcome >>

\* line 289: continue
LoopSkip ==
  /\ loopPc = "skip"
  /\ EndCycle
  /\ skipped' = TRUE
  /\ held' = 0
  /\ UNCHANGED << ctlVars, numBuffers, uiSource, nextBuffer, numBuffersQueued, iState,
                  caps, sampleBuffer >>
  /\ UNCHANGED << stVars, alVars >>
  /\ UNCHANGED << submits, clears, calls, atTest, lastFill, rejected, released >>
  /\ UNCHANGED << bReturn, outcome >>

\* lines 291-352: the format the cycle encodes to
Format ==
  IF surround_capable
    THEN IF float32_capable THEN "51CHN32" ELSE "51CHN16"
    ELSE IF float32_capable THEN "STEREO_FLOAT32" ELSE "STEREO16"

\* alBufferData(uiBuffers[slot], fmt, ...): the device may not know an
\* extension format (AL_INVALID_ENUM); it refuses to load a buffer that is
\* still queued on a source (AL_INVALID_OPERATION)
FillResults(fmt, slot) ==
  (IF fmt # "STEREO16" THEN {"invalid_enum"} ELSE {})
    \cup (IF \E i \in 1..Len(srcQueue) : srcQueue[i] = slot
            THEN {"invalid_operation"} ELSE {"ok"})

\* lines 320-327: a rejected surround format clears surround_capable
SurroundAfter(res) ==
  IF surround_capable THEN res # "invalid_enum" ELSE surround_capable

\* float32_capable probed anew by every stereo fill
Float32After_Reprobe(res) ==
  IF ~surround_capable THEN res # "invalid_enum" ELSE float32_capable

\* a rejected stereo float32 format leaving float32_capable set
Float32After_Ignore(res) == float32_capable

\* any rejected format clearing float32_capable
Float32After_AnyRejection(res) ==
  IF float32_capable THEN res # "invalid_enum" ELSE float32_capable

\* lines 336-340: a rejected stereo float32 format clears float32_capable
Float32After(res) ==
  IF ~surround_capable /\ float32_capable THEN res # "invalid_enum"
  ELSE float32_capable

\* line 358
NextSlot(slot) == (slot + 1) % numBuffers

\* lines 291-358: encode and fill the slot at the ring cursor, a format the
\* device does not know clearing the capability flag of the branch taken;
\* queue the slot, count it, advance the cursor
LoopSubmit ==
  /\ loopPc = "submit"
  /\ \E res \in FillResults(Format, nextBuffer) :
       /\ lastFill' = [slot |-> nextBuffer, fmt |-> Format,
                       batch |-> sampleBuffer, res |-> res]
       /\ surround_capable' = SurroundAfter(res)
       /\ float32_capable' = Float32After(res)
       /\ rejected' = IF Format = "STEREO_FLOAT32" /\ res = "invalid_enum"
                        THEN sampleBuffer ELSE rejected
  /\ srcQueue' = Append(srcQueue, nextBuffer)
  /\ numBuffersQueued' = numBuffersQueued + 1
  /\ nextBuffer' = NextSlot(nextBuffer)
  /\ submits' = submits + 1
  /\ calls' = calls \o << "fill", "queue" >>
  /\ loopPc' = "state"
  /\ UNCHANGED << ctlVars, numBuffers, uiSource, iState, bodyLocals, sampleBuffer >>
  /\ UNCHANGED << stVars, alDevice, alContext, alBuffers, srcPlayed, srcState >>
  /\ held' = 0
  /\ UNCHANGED << clears, atTest, skipped, released, bReturn, outcome >>

\* playback started only for a source that never played
NeedsResume_InitialOnly(state) == state = "initial"

\* line 361
NeedsResume(state) == state # "playing"

\* lines 360-361: query the source's state
LoopState ==
  /\ loopPc = "state"
  /\ iState' = srcState
  /\ calls' = Append(calls, "state")
  /\ IF NeedsResume(srcState)
       THEN /\ loopPc' = "resume"
            /\ UNCHANGED bodyLocals
       ELSE EndCycle
  /\ UNCHANGED << ctlVars, numBuffers, uiSource, nextBuffer, numBuffersQueued, caps,
                  sampleBuffer >>
  /\ UNCHANGED << stVars, alVars >>
  /\ UNCHANGED << submits, clears, atTest, skipped, held, lastFill, rejected, released >>
  /\ UNCHANGED << bReturn, outcome >>

\* lines 362-366: buffer underrun occurred, resume playback
LoopResume ==
  /\ loopPc = "resume"
  /\ srcState' = SourcePlayed(srcState, srcQueue)
  /\ srcPlayed' = 0
  /\ calls' = Append(calls, "play")
  /\ EndCycle
  /\ UNCHANGED << ctlVars, numBuffers, uiSource, nextBuffer, numBuffersQueued, iState,
                  caps, sampleBuffer >>
  /\ UNCHANGED << stVars, alDevice, alContext, alBuffers, srcQueue >>
  /\ UNCHANGED << submits, clears, atTest, skipped, held, lastFill, rejected, released >>
  /\ UNCHANGED << bReturn, outcome >>

\* -------------------------------------------------------- specifications
LoopNext ==
  \/ LoopSetup
  \/ LoopTest
  \/ LoopQuery
  \/ LoopWait
  \/ LoopReclaim
  \/ LoopMix
  \/ LoopStretch
  \/ LoopSkip
  \/ LoopSubmit
  \/ LoopState
  \/ LoopResume

StopNext ==
  \/ StopFlag
  \/ StopSet
  \/ StopClear
  \/ StopJoin
  \/ StopSource
  \/ StopContext

\* the stream: start, loop cycles, device progress, Update() wakes, format
\* rejections and stop
Next ==
  \/ StartOpen
  \/ StartFinish
  \/ Update
  \/ StopNext
  \/ LoopNext
  \/ DeviceProgress

Spec == Init /\ [][Next]_vars

\* the stream with Clear() called while it runs
ControlNext ==
  \/ Next
  \/ Clear

SpecControl == Init /\ [][ControlNext]_vars

\* the loop thread is scheduled as long as it can take a step
FairSpec == Spec /\ WF_vars(LoopNext)

\* ------------------------------------------------------------ properties
\* the loop made call c in its current cycle
Called(c) == \E i \in 1..Len(calls) : calls[i] = c

\* the calls of the current cycle from putSamples on
FromPut ==
  LET first == CHOOSE i \in 1..Len(calls) : calls[i] = "putSamples"
  IN  SubSeq(calls, first, Len(calls))

\* C1: numBuffersQueued never exceeds numBuffers, nor does the number of
\* slots the device holds; the loop goes on to submit only in a cycle where,
\* before reclaiming, queued < numBuffers or a buffer was reported processed,
\* so that after reclaiming a slot is free
C1_QueuedWithinDepth ==
  /\ numBuffersQueued >= 0
  /\ numBuffersQueued <= numBuffers
  /\ Len(srcQueue) <= numBuffers
  /\ loopPc = "reclaim" => (numBuffersQueued < numBuffers \/ numBuffersProcessed >= 1)
  /\ loopPc \in {"mix", "stretch", "skip", "submit"} => numBuffersQueued < numBuffers

\* the ring is full again after a slot was reclaimed and one more submitted
C1_Witness ==
  /\ numBuffers >= 2
  /\ numBuffersQueued = numBuffers
  /\ submits > numBuffers
  /\ Called("unqueue")
  /\ Called("queue")

\* C2: once Stop() has cleared the run flag and set the wake signal, the
\* loop thread eventually leaves its loop
C2_StopEndsLoop == (appPc = "stop_clear") ~> (loopPc = "done")

\* the stop arrived while the loop was blocked in the wait, the ring full
C2_Witness ==
  /\ appPc = "stop_clear"
  /\ loopPc = "wait"
  /\ ~m_run_thread
  /\ soundSyncEvent
  /\ numBuffersQueued = numBuffers

\* C3: while Stop() releases device resources, and afterwards, the loop
\* thread has terminated
C3_TeardownAfterLoop ==
  appPc \in {"stop_source", "stop_context", "stopped"} => loopPc = "done"

\* Stop() is about to stop the source of a loop that queued slots
C3_Witness ==
  /\ appPc = "stop_source"
  /\ loopPc = "done"
  /\ submits > 0
  /\ srcQueue # << >>

\* C4: when Stop() has returned, every buffer the loop generated is deleted
\* and the buffers, the source, the context and the device were each
\* released once
C4_ReleasedOnce ==
  appPc = "stopped" =>
    /\ released = [buffers |-> 1, source |-> 1, context |-> 1, device |-> 1]
    /\ numBuffers >= 2
    /\ alBuffers = 0
    /\ uiSource = 0
    /\ alContext = "destroyed"
    /\ alDevice = "closed"

\* Stop() has returned and the loop never queued a slot
C4_Witness ==
  /\ appPc = "stopped"
  /\ submits = 0
  /\ lastFill = NoFill
  /\ released.buffers = 1

\* C5: within a run of SoundLoop a capability flag that is false stays false
C5_DowngradeMonotonic ==
  [][loopPc \notin {"none", "setup"} =>
       /\ ~float32_capable => ~float32_capable'
       /\ ~surround_capable => ~surround_capable']_vars

\* both flags are down after a rejection and a later fill was accepted
C5_Witness ==
  /\ ~float32_capable
  /\ ~surround_capable
  /\ rejected >= 0
  /\ lastFill.res = "ok"
  /\ lastFill.batch > rejected

\* C6: in a cycle that queued a slot, alSourcePlay follows the queue call if
\* and only if the source state then reported was not playing, and it is
\* the cycle's last call, right after the state query
C6_ResumeIffNotPlaying ==
  /\ (loopPc = "test" /\ Called("queue")) =>
       /\ Called("play") <=> iState # "playing"
       /\ Called("play") =>
            SubSeq(calls, Len(calls) - 2, Len(calls)) = << "queue", "state", "play" >>
       /\ ~Called("play") =>
            SubSeq(calls, Len(calls) - 1, Len(calls)) = << "queue", "state" >>
  /\ Called("play") => Called("queue")
  /\ loopPc = "resume" => iState # "playing"

\* the queued buffers had drained and the source stopped: the cycle
\* reclaimed them, queued a slot and resumed playback
C6_Witness ==
  /\ loopPc = "test"
  /\ Called("unqueue")
  /\ Called("queue")
  /\ Called("play")
  /\ iState = "stopped"
  /\ srcState = "playing"

\* C7: after the device rejected a stereo float32 fill, float32_capable is
\* false; any later fill takes a batch drained after the rejected one and is
\* int16 stereo
C7_Float32Fallback ==
  rejected >= 0 =>
    /\ ~float32_capable
    /\ ~surround_capable
    /\ lastFill.batch >= rejected
    /\ lastFill.batch = rejected =>
         lastFill.fmt = "STEREO_FLOAT32" /\ lastFill.res = "invalid_enum"
    /\ lastFill.batch > rejected => lastFill.fmt = "STEREO16"

\* the cycle after the rejected one filled its slot with int16 stereo
C7_Witness ==
  /\ rejected >= 0
  /\ lastFill.batch = rejected + 1
  /\ lastFill.fmt = "STEREO16"
  /\ lastFill.res = "ok"

\* C8: in every cycle the loop calls setTempo(m) iff m > 0.10 and clears
\* soundTouch iff m > 10, the clear right after setTempo and before
\* receiveSamples
C8_TempoPolicy ==
  loopPc \in {"skip", "submit"} =>
    /\ FromPut = << "putSamples" >>
                   \o (IF rate > 10 THEN << "setTempo" >> ELSE << >>)
                   \o (IF rate > 1000 THEN << "clear" >> ELSE << >>)
                   \o << "receiveSamples" >>
    /\ rate > 10 => stTempo = rate

\* a cycle at twenty times the speed set the tempo and cleared soundTouch
C8_Witness ==
  /\ loopPc = "skip"
  /\ rate = 2000
  /\ stTempo = 2000
  /\ Called("setTempo")
  /\ Called("clear")

\* C9: a cycle whose speed is at most 0.10 is a pass-through: when
\* soundTouch holds the frames the cycle ingested, it drains them
\* unstretched, as many frames as it ingested
C9_PassThrough ==
  (loopPc \in {"skip", "submit"} /\ rate <= 10 /\ held = numSamples) =>
    nSamples = numSamples

\* C10: with surround enabled a cycle that drained fewer than 240 samples
\* queues nothing and leaves the ring cursor and the capability flags as
\* they were when it began; the loop does not wait after it
C10_ShortSurroundCycle ==
  /\ (loopPc = "skip" /\ surround_capable /\ nSamples < 240) =>
       /\ ~Called("fill")
       /\ ~Called("queue")
       /\ nextBuffer = atTest.nextBuffer
       /\ float32_capable = atTest.float32
       /\ surround_capable = atTest.surround
  /\ (skipped /\ surround_capable) =>
       /\ loopPc \in {"test", "query", "reclaim", "mix", "done"}
       /\ loopPc = "done" => ~m_run_thread
       /\ numBuffersQueued < numBuffers

\* a surround cycle that drained 120 samples has been skipped and the loop
\* is about to pull samples again
C10_Witness ==
  /\ skipped
  /\ surround_capable
  /\ loopPc = "mix"
  /\ m_run_thread
  /\ submits > 0

\* the cycle in progress runs with surround off, float32 on, a mixer that
\* returned frames and the speed at 1.0
SteadyCycle ==
  /\ ~atTest.surround
  /\ atTest.float32
  /\ rate = 100
  /\ numSamples > 0

\* C11: in a steady stereo float32 session every cycle that has a free slot
\* queues one float32 stereo buffer, filled at the ring cursor, which then
\* advances by one modulo numBuffers: the slots used are 0,1,...,N-1,0,...
\* and the cursor stays in 0..numBuffers-1
C11_SteadyRingOrder ==
  /\ loopPc \notin {"none", "setup"} => nextBuffer \in 0..(numBuffers - 1)
  /\ (SteadyCycle /\ loopPc \in {"skip", "submit"}) => loopPc = "submit"
  /\ (SteadyCycle /\ loopPc \in {"state", "resume"}) =>
       /\ lastFill.fmt = "STEREO_FLOAT32"
       /\ lastFill.slot = atTest.nextBuffer
       /\ lastFill.slot = (submits - 1) % numBuffers
       /\ nextBuffer = (lastFill.slot + 1) % numBuffers
       /\ numBuffersQueued = atTest.queued - numBuffersProcessed + 1

\* C12: Start() returns false and spawns no loop thread when no device was
\* found, the device was not opened or the context was not created, the
\* device being closed in each case; it returns true only with the device
\* open, the context current and the loop thread spawned
C12_StartReports ==
  /\ outcome = "ok" <=> bReturn
  /\ appPc \in {"start_fail", "failed"} =>
       /\ outcome \in {"no_device", "no_open", "no_context"}
       /\ ~bReturn
       /\ loopPc = "none"
       /\ alDevice = "closed"
       /\ alContext = "none"
  /\ appPc \in {"start_ok", "running"} =>
       /\ bReturn
       /\ loopPc # "none"
       /\ alDevice = "open"
       /\ alContext = "current"
  /\ loopPc # "none" => bReturn

\* Start() has returned false after the context could not be created
C12_Witness ==
  /\ appPc = "failed"
  /\ outcome = "no_context"
  /\ ~bReturn
  /\ alDevice = "closed"
  /\ loopPc = "none"

\* C13: while the stream is muted by Clear(true), no cycle of the loop
\* calls alSourcePlay
C13_NoResumeWhileMuted ==
  [][m_muted => ~(loopPc = "resume" /\ loopPc' # "resume")]_vars

\* C14: a slot is queued only after the fill of that cycle succeeded, and a
\* slot leaves the device's queue only when it was reported processed
C14_QueuedOnlyWhenFilled ==
  /\ (loopPc \in {"state", "resume"} /\ Called("queue")) => lastFill.res = "ok"
  /\ loopPc = "mix" => Len(srcQueue) = atTest.queued - numBuffersProcessed

\* C15: with surround on, a cycle is skipped only when it drained fewer
\* than 240 samples; a cycle that drained exactly 240 is submitted
C15_SkipBelowMinimum ==
  (loopPc = "skip" /\ surround_capable) => nSamples < 240

StopRequested == appPc \in {"stop_clear", "stop_join"}

C18_OnlyFlagAndSignalShared ==
  [][(/\ loopPc \notin {"none", "done"}
      /\ loopPc' = loopPc
      /\ appPc' # appPc \/ clears' # clears) =>
       UNCHANGED << stVars, loopVars, srcQueue, srcPlayed, srcState >>]_vars

\* the slots the device holds in its queue
Holds(slot) == \E i \in 1..Len(srcQueue) : srcQueue[i] = slot

\* the k-th of the n slots preceding the ring cursor
Preceding(k, n) == (nextBuffer + numBuffers * n - n + k - 1) % numBuffers

\* C19: while the loop runs, numBuffersQueued is the number of slots the
\* device holds, these are the numBuffersQueued slots preceding the ring
\* cursor, and the slot at the cursor is not among them when it is filled
C19_CountMatchesDevice ==
  (loopPc \notin {"none", "setup", "done"}) =>
    /\ numBuffersQueued = Len(srcQueue)
    /\ \A k \in 1..Len(srcQueue) : srcQueue[k] = Preceding(k, Len(srcQueue))
    /\ loopPc = "submit" => ~Holds(nextBuffer)

\* C20: a rejected surround fill clears surround_capable alone, a rejected
\* stereo float32 fill clears float32_capable alone, any other fill leaves
\* both flags; from one fill to the next the format stays or goes from
\* surround float32 to stereo float32, from stereo float32 to stereo int16
\* or from surround int16 to stereo int16, so that a session downgrades at
\* most twice and tries no surround int16 after surround float32
C20_DowngradeOrder ==
  /\ [](loopPc \in {"state", "resume"} =>
         LET unknown == lastFill.res = "invalid_enum"
         IN  /\ (unknown /\ lastFill.fmt \in {"51CHN32", "51CHN16"}) =>
                  ~surround_capable /\ float32_capable = atTest.float32
             /\ (unknown /\ lastFill.fmt = "STEREO_FLOAT32") =>
                  ~float32_capable /\ surround_capable = atTest.surround
             /\ (~unknown \/ lastFill.fmt = "STEREO16") =>
                  /\ float32_capable = atTest.float32
                  /\ surround_capable = atTest.surround)
  /\ [][LET downgrades == { << "51CHN32", "STEREO_FLOAT32" >>,
                            << "STEREO_FLOAT32", "STEREO16" >>,
                            << "51CHN16", "STEREO16" >> }
        IN  (lastFill.fmt # "none" /\ lastFill'.fmt # lastFill.fmt) =>
              /\ << lastFill.fmt, lastFill'.fmt >> \in downgrades
              /\ lastFill.res = "invalid_enum"]_vars

\* the device has rejected a surround float32 fill: surround is off and
\* float32 still on
C20_Witness ==
  /\ loopPc = "state"
  /\ lastFill.fmt = "51CHN32"
  /\ lastFill.res = "invalid_enum"
  /\ ~surround_capable
  /\ float32_capable

====
